---------------------------- MODULE Spec2Model ----------------------------
(***************************************************************************)
(* Model of the interview-preparation backend's request orchestration:     *)
(*   backend/app/api/job_descriptions.py   upload_job_description,         *)
(*                                         list_job_descriptions,          *)
(*                                         get_questions                   *)
(*   backend/app/api/responses.py          submit_response, list_responses *)
(*   backend/app/services/r2_storage_service.py   save_pdf, save_audio     *)
(*   backend/app/services/claude_service.py       generate_questions,      *)
(*                                                evaluate_response        *)
(*                                                                         *)
(* The database tables, the object-store bucket and the requests in flight *)
(* are the state.  A handler is split at its calls to the outside world    *)
(* (object store, language model, transcription, db.commit): every such    *)
(* call is one step that either returns or raises, and the steps of        *)
(* different requests interleave.  A db.commit() applies everything the    *)
(* session has pending at once, or raises and applies nothing; the         *)
(* db.refresh() that follows each commit re-reads the row just committed   *)
(* and is taken together with it.  uuid4 values are modelled by the number *)
(* of the request that draws them.  The texts a row carries (company_name, *)
(* job_title, extracted_text, feedback) take part in no decision of the    *)
(* handlers and are left out of the rows, and so is the created_at of a    *)
(* job description, which only orders the answer of list_job_descriptions. *)
(* Spec lets the requests overlap; SerialSpec handles them one at a time   *)
(* and adds the listing endpoints.                                         *)
(***************************************************************************)
EXTENDS Integers, Sequences, FiniteSets, TLC

\* ---------------------------------------------------------------- bounds
\* Number of requests the clients send over a run.  They may all be inside a
\* handler at the same time.
MaxRequests == 2

\* ------------------------------------------------------------- constants
\* job_descriptions.py:56   10 * 1024 * 1024
MaxPdfBytes == 10 * 1024 * 1024
\* responses.py:66   50 * 1024 * 1024
MaxAudioBytes == 50 * 1024 * 1024
\* claude_service.py:17-18   QuestionsList.questions min_length = max_length
NumQuestions == 5
\* claude_service.py:26   Field(ge=1, le=10)
MinScore == 1
MaxScore == 10

Users == {"alice", "bob"}

NoId == 0
None == "None"
NoKey == << >>

\* JobDescriptionStatus (models/job_description.py, imported at
\* job_descriptions.py:10)
PENDING == "pending"
QUESTIONS_GENERATED == "questions_generated"
ERROR == "error"

\* ------------------------------------------------------------ file names
\* A file name is a sequence of characters.
UpperCase == <<"A","B","C","D","E","F","G","H","I","J","K","L","M",
               "N","O","P","Q","R","S","T","U","V","W","X","Y","Z">>
LowerCase == <<"a","b","c","d","e","f","g","h","i","j","k","l","m",
               "n","o","p","q","r","s","t","u","v","w","x","y","z">>

\* str.lower() on one character
LowerChar(c) ==
    IF \E i \in 1..Len(UpperCase) : UpperCase[i] = c
    THEN LowerCase[CHOOSE i \in 1..Len(UpperCase) : UpperCase[i] = c]
    ELSE c

\* str.lower()
Lower(s) == [i \in 1..Len(s) |-> LowerChar(s[i])]

\* str.endswith(suffix)
EndsWith(s, suffix) ==
    /\ Len(s) >= Len(suffix)
    /\ SubSeq(s, Len(s) - Len(suffix) + 1, Len(s)) = suffix

DotPdf == <<".", "p", "d", "f">>

\* The file names the clients send.
FileNames ==
    { <<"j","d",".","p","d","f">>,
      <<"J","D",".","P","d","F">>,
      <<"j","d",".","t","x","t">>,
      <<"j","d","p","d","f">> }

\* The payload lengths of the PDF uploads the clients send, in bytes.
PdfSizes == { MaxPdfBytes, MaxPdfBytes + 1, 12 * 1024 * 1024 }

\* job_descriptions.py:46   not file.filename.lower().endswith('.pdf')
NotCaseFoldedPdf(filename) == ~ EndsWith(filename, DotPdf)
NotPdf(filename) == ~ EndsWith(Lower(filename), DotPdf)

\* job_descriptions.py:56   len(content) > 10 * 1024 * 1024
PdfTooLargeInclusive(size) == size >= MaxPdfBytes
PdfTooLarge(size) == size > MaxPdfBytes


\* ----------------------------------------------------------------- state
VARIABLES
    job_descriptions,   \* table job_descriptions: committed rows
    questions,          \* table questions: committed rows
    responses,          \* table responses: committed rows
    response_scores,    \* table response_scores: committed rows
    bucket,             \* keys of the objects held by the R2 bucket
    calls,              \* <<service, request>>: calls made to the hosted AI services
    requests,           \* the requests inside a handler: request number -> frame
    next_request        \* number of the next request to arrive

vars == <<job_descriptions, questions, responses, response_scores,
          bucket, calls, requests, next_request>>

db == <<job_descriptions, questions, responses, response_scores>>

\* The local variables of a handler invocation and the answer it gives.
Frame(kind, user) ==
    [ kind |-> kind,                \* the handler: "upload", "submit", or the
                                    \* name of a listing endpoint
      user |-> user,                \* current_user.id
      filename |-> <<>>,            \* file.filename
      size |-> 0,                   \* len(content)
      question_id |-> NoId,         \* path parameter question_id
      job_description_id |-> NoId,  \* path parameter job_description_id
      pc |-> "start",
      status_code |-> 0,            \* HTTP status of the answer, 0 while running
      detail |-> << >>,             \* HTTPException.detail
      body |-> None,                \* what a 201 answer carries
      rows |-> {},                  \* the rows a 200 answer of list_job_descriptions
                                    \* or get_questions carries
      items |-> << >>,              \* the list a 200 answer of list_responses carries
      raised_in |-> None,           \* the call whose exception ended the request
      exception |-> None,           \* str(e) of that exception
      file_path |-> NoKey,          \* upload: key returned by save_pdf
      job_description |-> NoId,     \* upload: job_description.id once committed
      questions_list |-> <<>>,      \* upload: result of generate_questions
      error |-> None,               \* upload: str(e) caught at line 104
      audio_path |-> NoKey,         \* submit: key returned by save_audio
      transcript |-> None,          \* submit: result of whisper_service.transcribe
      response |-> NoId,            \* submit: response.id once committed
      evaluation |-> {},            \* submit: {result of evaluate_response}
      response_score |-> NoId ]     \* submit: response_score.id once committed

InFlight == DOMAIN requests

Put(r, frame) == [ x \in InFlight \cup {r} |-> IF x = r THEN frame ELSE requests[x] ]

\* raise HTTPException(status_code, detail): the handler is left.
Answer(frame, code, detail) ==
    [ frame EXCEPT !.pc = "done", !.status_code = code, !.detail = detail ]

\* An exception raised by `place` with message msg reaches the handler's outer
\* `except Exception as e`.
\* job_descriptions.py:115-120  detail is the fixed text.
UploadAbort(frame, place, msg) ==
    Answer([frame EXCEPT !.raised_in = place, !.exception = msg], 500,
           <<"Failed to process job description">>)

\* The message of the exception is kept out of the answer.
SubmitAbortGeneric(frame, place, msg) ==
    Answer([frame EXCEPT !.raised_in = place, !.exception = msg], 500,
           <<"Failed to process response">>)

\* responses.py:130-135  detail carries str(e).
SubmitAbort(frame, place, msg) ==
    Answer([frame EXCEPT !.raised_in = place, !.exception = msg], 500,
           <<"Failed to process response: ", msg>>)

Init ==
    /\ job_descriptions = {}
    /\ questions = {}
    /\ responses = {}
    /\ response_scores = {}
    /\ bucket = {}
    /\ calls = {}
    /\ requests = << >>
    /\ next_request = 1

CanArrive == next_request <= MaxRequests

\* ------------------------------------------------ upload_job_description

\* job_descriptions.py:45-60  validation of file type and size.
UploadChecks(user, filename, size) ==
    /\ LET f == [ Frame("upload", user) EXCEPT !.filename = filename, !.size = size ]
       IN  requests' =
             Put(next_request,
                 IF NotPdf(filename)
                 THEN Answer(f, 400, <<"File must be a PDF">>)
                 ELSE IF PdfTooLarge(size)
                 THEN Answer(f, 400, <<"File size must be less than 10MB">>)
                 ELSE [ f EXCEPT !.pc = "save_pdf" ])
    /\ next_request' = next_request + 1
    /\ UNCHANGED <<db, bucket, calls>>

\* job_descriptions.py:21-22  POST, while the clients have requests left to send
UploadStart(user, filename, size) ==
    /\ CanArrive
    /\ UploadChecks(user, filename, size)

PdfKey(r) == <<"pdfs", r>>

\* r2_storage_service.py:36-87  save_pdf: put_object, then extract_pdf_text.
\* job_descriptions.py:64
SavePdfPutFails(r) ==
    /\ requests' = Put(r, UploadAbort(requests[r], "save_pdf", "Failed to save PDF to R2"))
    /\ UNCHANGED bucket

\* The extraction failure is logged and the handler goes on as if save_pdf had
\* returned.
SavePdfExtractFailureSwallowed(r) ==
    /\ bucket' = bucket \cup {PdfKey(r)}
    /\ requests' = Put(r, [ requests[r] EXCEPT !.raised_in = "save_pdf",
                                               !.file_path = PdfKey(r),
                                               !.pc = "create" ])

\* r2_storage_service.py:89-115  extract_pdf_text raises after the object was put.
SavePdfExtractFails(r) ==
    /\ bucket' = bucket \cup {PdfKey(r)}
    /\ requests' = Put(r, UploadAbort(requests[r], "save_pdf",
                                      "Failed to extract text from PDF"))

SavePdfReturns(r) ==
    /\ bucket' = bucket \cup {PdfKey(r)}
    /\ requests' = Put(r, [ requests[r] EXCEPT !.file_path = PdfKey(r), !.pc = "create" ])

SavePdf(r) ==
    /\ r \in InFlight
    /\ requests[r].kind = "upload"
    /\ requests[r].pc = "save_pdf"
    /\ \/ SavePdfPutFails(r)
       \/ SavePdfExtractFails(r)
       \/ SavePdfReturns(r)
    /\ UNCHANGED <<db, calls, next_request>>

\* job_descriptions.py:67-74  JobDescription(..., status=PENDING)
NewJobDescriptionGenerated(id, user, file_path) ==
    [ id |-> id, user_id |-> user, file_path |-> file_path,
      status |-> QUESTIONS_GENERATED, error_message |-> None ]
NewJobDescription(id, user, file_path) ==
    [ id |-> id, user_id |-> user, file_path |-> file_path,
      status |-> PENDING, error_message |-> None ]

\* The handler goes on to question generation without the row being committed.
CreateJobDescriptionNoCommit(r) ==
    /\ r \in InFlight
    /\ requests[r].kind = "upload"
    /\ requests[r].pc = "create"
    /\ requests' = Put(r, [ requests[r] EXCEPT !.job_description = r, !.pc = "generate" ])
    /\ UNCHANGED <<db, bucket, calls, next_request>>

\* job_descriptions.py:76-78  db.add; db.commit; db.refresh
CreateJobDescription(r) ==
    /\ r \in InFlight
    /\ requests[r].kind = "upload"
    /\ requests[r].pc = "create"
    /\ \/ /\ job_descriptions' = job_descriptions \cup
                { NewJobDescription(r, requests[r].user, requests[r].file_path) }
          /\ requests' = Put(r, [ requests[r] EXCEPT !.job_description = r,
                                                     !.pc = "generate" ])
       \/ /\ requests' = Put(r, UploadAbort(requests[r], "create", "commit failed"))
          /\ UNCHANGED job_descriptions
    /\ UNCHANGED <<questions, responses, response_scores, bucket, calls, next_request>>


\* ------------------------------------------------------ hosted AI services
\* What a call to client.beta.messages.parse can come back with: the call raises,
\* the answer carries no parsed output, or it carries a list of questions.
QuestionTexts(n) == [ i \in 1..n |-> <<"question", i>> ]

ClaudeQuestionOutputs ==
    { [ kind |-> "raises", questions |-> << >> ],
      [ kind |-> "unparsed", questions |-> << >> ] }
    \cup { [ kind |-> "parsed", questions |-> QuestionTexts(n) ] :
             n \in { NumQuestions - 1, NumQuestions, NumQuestions + 1 } }

\* claude_service.py:12-20  QuestionsList: min_length=5, max_length=5
AnyQuestionsList(qs) == TRUE
ValidQuestionsList(qs) == Len(qs) >= NumQuestions /\ Len(qs) <= NumQuestions

Raise(msg) == [ raised |-> msg, value |-> {} ]
Return(v) == [ raised |-> None, value |-> {v} ]
ValueOf(result) == CHOOSE v \in result.value : TRUE

\* claude_service.py:69-113  generate_questions
GenerateQuestions(output) ==
    IF output.kind = "raises"
    THEN Raise("Claude API error")
    ELSE IF output.kind = "parsed" /\ ~ ValidQuestionsList(output.questions)
    THEN Raise("QuestionsList validation error")
    ELSE IF output.kind = "unparsed"
    THEN Raise("Failed to parse questions from Claude response")
    ELSE Return(output.questions)

\* job_descriptions.py:81-86 and the jump to `except Exception as e` at 104
CallGenerateQuestions(r) ==
    /\ r \in InFlight
    /\ requests[r].kind = "upload"
    /\ requests[r].pc = "generate"
    /\ calls' = calls \cup { <<"generate_questions", r>> }
    /\ \E output \in ClaudeQuestionOutputs :
         LET res == GenerateQuestions(output)
         IN  requests' = Put(r,
               IF res.raised = None
               THEN [ requests[r] EXCEPT !.questions_list = ValueOf(res),
                                         !.pc = "persist" ]
               ELSE [ requests[r] EXCEPT !.error = res.raised,
                                         !.pc = "mark_error" ])
    /\ UNCHANGED <<db, bucket, next_request>>

\* job_descriptions.py:89-95  one Question per text, owned by the uploader
NewQuestions(jd, user, texts) ==
    { [ id |-> <<jd, i>>, job_description_id |-> jd, user_id |-> user,
        question_text |-> texts[i] ] : i \in 1..Len(texts) }

\* The status is written and the message is not.
SetStatusOnly(jd, status, message) ==
    { IF j.id = jd THEN [ j EXCEPT !.status = status ] ELSE j : j \in job_descriptions }

\* UPDATE job_descriptions SET status, error_message WHERE id = jd
SetStatus(jd, status, message) ==
    { IF j.id = jd THEN [ j EXCEPT !.status = status, !.error_message = message ]
      ELSE j : j \in job_descriptions }

\* job_descriptions.py:88-102  db.add(question)...; status; db.commit; db.refresh
PersistQuestions(r) ==
    /\ r \in InFlight
    /\ requests[r].kind = "upload"
    /\ requests[r].pc = "persist"
    /\ \/ /\ questions' = questions \cup
                NewQuestions(requests[r].job_description, requests[r].user,
                             requests[r].questions_list)
          /\ job_descriptions' =
                SetStatus(requests[r].job_description, QUESTIONS_GENERATED, None)
          /\ requests' = Put(r, [ Answer(requests[r], 201, << >>)
                                    EXCEPT !.body = QUESTIONS_GENERATED ])
       \/ /\ requests' = Put(r, [ requests[r] EXCEPT !.error = "commit failed",
                                                     !.pc = "mark_error" ])
          /\ UNCHANGED <<job_descriptions, questions>>
    /\ UNCHANGED <<responses, response_scores, bucket, calls, next_request>>

\* job_descriptions.py:113  return job_description, reached from the inner
\* `except` once the ERROR status is committed.
ReraiseAfterMarkError(frame) ==
    Answer(frame, 500, <<"Failed to process job description">>)
ReturnAfterMarkError(frame) ==
    [ Answer(frame, 201, << >>) EXCEPT !.body = ERROR ]

\* job_descriptions.py:104-113  status = ERROR; error_message = str(e); db.commit
MarkError(r) ==
    /\ r \in InFlight
    /\ requests[r].kind = "upload"
    /\ requests[r].pc = "mark_error"
    /\ \/ /\ job_descriptions' =
                SetStatus(requests[r].job_description, ERROR, requests[r].error)
          /\ requests' = Put(r, ReturnAfterMarkError(requests[r]))
       \/ /\ requests' = Put(r, UploadAbort(requests[r], "mark_error", "commit failed"))
          /\ UNCHANGED job_descriptions
    /\ UNCHANGED <<questions, responses, response_scores, bucket, calls, next_request>>

\* ------------------------------------------------------- submit_response

\* The question ids the clients name: the first question of every upload, whether
\* that upload produced questions or not.
QuestionIdInputs == { <<j, 1>> : j \in 1..MaxRequests }

\* The payload lengths of the audio the clients send, in bytes.
AudioSizes == { MaxAudioBytes, MaxAudioBytes + 1, 60 * 1024 * 1024 }

\* responses.py:66   len(content) > 50 * 1024 * 1024
AudioTooLargeTenfold(size) == size > 500 * 1024 * 1024
AudioTooLarge(size) == size > MaxAudioBytes

\* responses.py:46-49  db.query(Question).filter(id == question_id,
\*                                              user_id == current_user.id)
FindQuestionAnyOwner(question_id, user) ==
    { q \in questions : q.id = question_id }
FindQuestion(question_id, user) ==
    { q \in questions : q.id = question_id /\ q.user_id = user }

\* responses.py:45-70  ownership check, then size check.
SubmitChecks(user, question_id, size) ==
    /\ LET f == [ Frame("submit", user) EXCEPT !.question_id = question_id,
                                               !.size = size ]
       IN  requests' =
             Put(next_request,
                 IF FindQuestion(question_id, user) = {}
                 THEN Answer(f, 404, <<"Question not found">>)
                 ELSE IF AudioTooLarge(size)
                 THEN Answer(f, 400, <<"Audio file size must be less than 50MB">>)
                 ELSE [ f EXCEPT !.pc = "save_audio" ])
    /\ next_request' = next_request + 1
    /\ UNCHANGED <<db, bucket, calls>>

\* responses.py:23-24  POST, while the clients have requests left to send
SubmitStart(user, question_id, size) ==
    /\ CanArrive
    /\ SubmitChecks(user, question_id, size)

AudioKey(r) == <<"audio", r>>

\* r2_storage_service.py:117-163  save_audio;  responses.py:74
SaveAudio(r) ==
    /\ r \in InFlight
    /\ requests[r].kind = "submit"
    /\ requests[r].pc = "save_audio"
    /\ \/ /\ bucket' = bucket \cup { AudioKey(r) }
          /\ requests' = Put(r, [ requests[r] EXCEPT !.audio_path = AudioKey(r),
                                                     !.pc = "transcribe" ])
       \/ /\ requests' = Put(r, SubmitAbort(requests[r], "save_audio",
                                            "Failed to save audio to R2"))
          /\ UNCHANGED bucket
    /\ UNCHANGED <<db, calls, next_request>>

\* whisper_service.transcribe: returns the transcript of the audio, or raises.
Transcripts == { "I led the migration" }
WhisperOutputs == { Raise("transcription failed") } \cup { Return(t) : t \in Transcripts }

\* responses.py:76-78
Transcribe(r) ==
    /\ r \in InFlight
    /\ requests[r].kind = "submit"
    /\ requests[r].pc = "transcribe"
    /\ calls' = calls \cup { <<"transcribe", r>> }
    /\ \E res \in WhisperOutputs :
         requests' = Put(r,
           IF res.raised = None
           THEN [ requests[r] EXCEPT !.transcript = ValueOf(res), !.pc = "commit_response" ]
           ELSE SubmitAbort(requests[r], "transcribe", res.raised))
    /\ UNCHANGED <<db, bucket, next_request>>

\* The row is built without the transcript.
NewResponseWithoutTranscript(id, frame) ==
    [ id |-> id, question_id |-> frame.question_id, user_id |-> frame.user,
      audio_path |-> frame.audio_path, transcript |-> "",
      created_at |-> Cardinality(responses) + 1 ]

\* responses.py:81-86  Response(question_id, user_id, audio_path, transcript)
\* models/response.py:21  created_at, default=datetime.utcnow: the clock is read
\* when the row is flushed by the commit, so created_at is the position of the
\* row in the order in which the responses were committed.
NewResponse(id, frame) ==
    [ id |-> id, question_id |-> frame.question_id, user_id |-> frame.user,
      audio_path |-> frame.audio_path, transcript |-> frame.transcript,
      created_at |-> Cardinality(responses) + 1 ]

\* The Response is added to the session and only committed with its score.
CommitResponseDeferred(r) ==
    /\ r \in InFlight
    /\ requests[r].kind = "submit"
    /\ requests[r].pc = "commit_response"
    /\ requests' = Put(r, [ requests[r] EXCEPT !.response = r, !.pc = "evaluate" ])
    /\ UNCHANGED <<db, bucket, calls, next_request>>

\* responses.py:88-90  db.add; db.commit; db.refresh
CommitResponse(r) ==
    /\ r \in InFlight
    /\ requests[r].kind = "submit"
    /\ requests[r].pc = "commit_response"
    /\ \/ /\ responses' = responses \cup { NewResponse(r, requests[r]) }
          /\ requests' = Put(r, [ requests[r] EXCEPT !.response = r, !.pc = "evaluate" ])
       \/ /\ requests' = Put(r, SubmitAbort(requests[r], "commit_response", "commit failed"))
          /\ UNCHANGED responses
    /\ UNCHANGED <<job_descriptions, questions, response_scores, bucket, calls,
                   next_request>>

ScoreFields == { "confidence", "clarity_structure", "technical_depth",
                 "communication_skills", "relevance" }

\* The score mappings the language model sends back.
ScoreVectors ==
    { [ confidence |-> MinScore, clarity_structure |-> MaxScore, technical_depth |-> 5,
        communication_skills |-> 7, relevance |-> MaxScore ],
      [ confidence |-> MinScore - 1, clarity_structure |-> 5, technical_depth |-> 5,
        communication_skills |-> 5, relevance |-> 5 ],
      [ confidence |-> 5, clarity_structure |-> 5, technical_depth |-> 5,
        communication_skills |-> 5, relevance |-> MaxScore + 1 ] }

ClaudeEvaluationOutputs ==
    { [ kind |-> "raises", scores |-> << >> ],
      [ kind |-> "unparsed", scores |-> << >> ] }
    \cup { [ kind |-> "parsed", scores |-> v ] : v \in ScoreVectors }

\* claude_service.py:23-36  Scores: every field ge=1, le=10
AnyScores(scores) == TRUE
ValidScores(scores) ==
    \A f \in ScoreFields : scores[f] >= MinScore /\ scores[f] <= MaxScore

\* claude_service.py:115-177  evaluate_response
EvaluateResponse(output) ==
    IF output.kind = "raises"
    THEN Raise("Claude API error")
    ELSE IF output.kind = "parsed" /\ ~ ValidScores(output.scores)
    THEN Raise("EvaluationResult validation error")
    ELSE IF output.kind = "unparsed"
    THEN Raise("Failed to parse evaluation from Claude response")
    ELSE Return([ scores |-> output.scores ])

\* responses.py:92-98
CallEvaluateResponse(r) ==
    /\ r \in InFlight
    /\ requests[r].kind = "submit"
    /\ requests[r].pc = "evaluate"
    /\ calls' = calls \cup { <<"evaluate_response", r>> }
    /\ \E output \in ClaudeEvaluationOutputs :
         LET res == EvaluateResponse(output)
         IN  requests' = Put(r,
               IF res.raised = None
               THEN [ requests[r] EXCEPT !.evaluation = res.value, !.pc = "commit_score" ]
               ELSE SubmitAbort(requests[r], "evaluate", res.raised))
    /\ UNCHANGED <<db, bucket, next_request>>

\* responses.py:101-112  ResponseScore(response_id, scores_json, score_...)
NewResponseScore(id, response, evaluation) ==
    [ id |-> id, response_id |-> response, scores_json |-> evaluation,
      score_confidence |-> evaluation.scores["confidence"],
      score_clarity_structure |-> evaluation.scores["clarity_structure"],
      score_technical_depth |-> evaluation.scores["technical_depth"],
      score_communication_skills |-> evaluation.scores["communication_skills"],
      score_relevance |-> evaluation.scores["relevance"] ]

\* responses.py:114-128  db.add; db.commit; db.refresh; return
CommitScore(r) ==
    /\ r \in InFlight
    /\ requests[r].kind = "submit"
    /\ requests[r].pc = "commit_score"
    /\ \/ /\ response_scores' = response_scores \cup
                { NewResponseScore(r, requests[r].response,
                                   CHOOSE e \in requests[r].evaluation : TRUE) }
          /\ requests' = Put(r, [ Answer([ requests[r] EXCEPT !.response_score = r ],
                                         201, << >>)
                                    EXCEPT !.body = "response" ])
       \/ /\ requests' = Put(r, SubmitAbort(requests[r], "commit_score", "commit failed"))
          /\ UNCHANGED response_scores
    /\ UNCHANGED <<job_descriptions, questions, responses, bucket, calls, next_request>>

\* ---------------------------------------------------- listing endpoints
\* A listing request reads the database and answers in one step.  It draws no
\* id: its frame takes the number next_request and leaves the counter alone.

\* job_descriptions.py:138-142  filter(JobDescription.user_id == current_user.id)
\* The order of the list (created_at of the job descriptions) is not modelled.
EveryJobDescription(user) == job_descriptions
OwnJobDescriptions(user) == { j \in job_descriptions : j.user_id = user }

\* job_descriptions.py:123-142
ListJobDescriptions(user) ==
    /\ requests' = Put(next_request,
                       [ Answer(Frame("list_job_descriptions", user), 200, << >>)
                           EXCEPT !.rows = OwnJobDescriptions(user) ])
    /\ UNCHANGED <<db, bucket, calls, next_request>>

\* job_descriptions.py:166-169  filter(JobDescription.id == job_description_id,
\*                                     JobDescription.user_id == current_user.id)
FindJobDescription(job_description_id, user) ==
    { j \in job_descriptions : j.id = job_description_id /\ j.user_id = user }

\* job_descriptions.py:180  filter(Question.job_description_id == job_description_id)
QuestionsFor(job_description_id) ==
    { q \in questions : q.job_description_id = job_description_id }

\* job_descriptions.py:145-182
GetQuestions(user, job_description_id) ==
    /\ LET f == [ Frame("get_questions", user)
                    EXCEPT !.job_description_id = job_description_id ]
       IN  requests' =
             Put(next_request,
                 IF FindJobDescription(job_description_id, user) = {}
                 THEN Answer(f, 404, <<"Job description not found">>)
                 ELSE [ Answer(f, 200, << >>)
                          EXCEPT !.rows = QuestionsFor(job_description_id) ])
    /\ UNCHANGED <<db, bucket, calls, next_request>>

\* Every Response of the question, with its score or with an empty one.
LeftJoinedResponses(question_id) ==
    { <<x, s>> \in { y \in responses : y.question_id = question_id }
                   \X (response_scores \cup
                        { [ id |-> NoId, response_id |-> NoId,
                            scores_json |-> [ scores |-> << >> ],
                            score_confidence |-> 0, score_clarity_structure |-> 0,
                            score_technical_depth |-> 0,
                            score_communication_skills |-> 0,
                            score_relevance |-> 0 ] }) :
        IF \E t \in response_scores : t.response_id = x.id
        THEN s.response_id = x.id
        ELSE s.response_id = NoId }

\* responses.py:171-174  query(Response, ResponseScore)
\*     .join(ResponseScore, Response.id == ResponseScore.response_id)
\*     .filter(Response.question_id == question_id)
JoinedResponses(question_id) ==
    { <<x, s>> \in responses \X response_scores :
        x.id = s.response_id /\ x.question_id = question_id }

\* responses.py:174  order_by(Response.created_at.desc())
RECURSIVE NewestFirst(_)
NewestFirst(pairs) ==
    IF pairs = {}
    THEN << >>
    ELSE LET newest == CHOOSE p \in pairs :
                          \A o \in pairs : o[1].created_at <= p[1].created_at
         IN  <<newest>> \o NewestFirst(pairs \ {newest})

\* responses.py:178-187  one item per (response, score) pair, in the order of
\* the query
ResponseItems(pairs) ==
    [ i \in 1..Len(pairs) |->
        [ response_id |-> pairs[i][1].id,
          created_at |-> pairs[i][1].created_at,
          scores |-> pairs[i][2].scores_json.scores ] ]

\* responses.py:138-187
ListResponses(user, question_id) ==
    /\ LET f == [ Frame("list_responses", user) EXCEPT !.question_id = question_id ]
       IN  requests' =
             Put(next_request,
                 IF FindQuestion(question_id, user) = {}
                 THEN Answer(f, 404, <<"Question not found">>)
                 ELSE [ Answer(f, 200, << >>)
                          EXCEPT !.items =
                            ResponseItems(NewestFirst(JoinedResponses(question_id))) ])
    /\ UNCHANGED <<db, bucket, calls, next_request>>

\* The answer has been sent: the handler's frame is gone.
Respond(r) ==
    /\ r \in InFlight
    /\ requests[r].pc = "done"
    /\ requests' = [ x \in InFlight \ {r} |-> requests[x] ]
    /\ UNCHANGED <<db, bucket, calls, next_request>>

Next ==
    \/ \E user \in Users, filename \in FileNames, size \in PdfSizes :
         UploadStart(user, filename, size)
    \/ \E user \in Users, question_id \in QuestionIdInputs, size \in AudioSizes :
         SubmitStart(user, question_id, size)
    \/ \E r \in 1..MaxRequests :
         \/ SavePdf(r)
         \/ CreateJobDescription(r)
         \/ CallGenerateQuestions(r)
         \/ PersistQuestions(r)
         \/ MarkError(r)
         \/ SaveAudio(r)
         \/ Transcribe(r)
         \/ CommitResponse(r)
         \/ CallEvaluateResponse(r)
         \/ CommitScore(r)
         \/ Respond(r)

Spec == Init /\ [][Next]_vars

\* ------------------------------------------------- one request at a time
\* The clients wait for the answer to a request before they send the next one,
\* and between two requests they may read any listing endpoint.  Without
\* requests that overlap, longer histories of uploads and submissions are
\* within reach.

\* Number of uploads and submissions the clients send one after the other.
MaxSerialRequests == 3

Idle == InFlight = {}

SerialCanArrive == Idle /\ next_request <= MaxSerialRequests

\* The ids the clients name: the job description of every request number that
\* an upload may have had, and its first question.
SerialJobDescriptionIds == 1..MaxSerialRequests
SerialQuestionIds == { <<j, 1>> : j \in 1..MaxSerialRequests }

SerialNext ==
    \/ \E user \in Users, filename \in FileNames, size \in PdfSizes :
         SerialCanArrive /\ UploadChecks(user, filename, size)
    \/ \E user \in Users, question_id \in SerialQuestionIds, size \in AudioSizes :
         SerialCanArrive /\ SubmitChecks(user, question_id, size)
    \/ \E user \in Users :
         Idle /\ ListJobDescriptions(user)
    \/ \E user \in Users, job_description_id \in SerialJobDescriptionIds :
         Idle /\ GetQuestions(user, job_description_id)
    \/ \E user \in Users, question_id \in SerialQuestionIds :
         Idle /\ ListResponses(user, question_id)
    \/ \E r \in 1..(MaxSerialRequests + 1) :
         \/ SavePdf(r)
         \/ CreateJobDescription(r)
         \/ CallGenerateQuestions(r)
         \/ PersistQuestions(r)
         \/ MarkError(r)
         \/ SaveAudio(r)
         \/ Transcribe(r)
         \/ CommitResponse(r)
         \/ CallEvaluateResponse(r)
         \/ CommitScore(r)
         \/ Respond(r)

SerialSpec == Init /\ [][SerialNext]_vars

\* ------------------------------------------------------------ properties
Statuses == { PENDING, QUESTIONS_GENERATED, ERROR }

Finished(r) == r \in InFlight /\ requests[r].pc = "done"
FinishedUploads == { r \in InFlight : requests[r].kind = "upload" /\ Finished(r) }
FinishedSubmits == { r \in InFlight : requests[r].kind = "submit" /\ Finished(r) }

\* The rows that belong to request r (the ids a request draws carry its number).
JobDescriptionsOf(r) == { j \in job_descriptions : j.id = r }
QuestionsOf(jd) == { q \in questions : q.job_description_id = jd }
ResponsesOf(r) == { x \in responses : x.id = r }
ScoresOf(response) == { x \in response_scores : x.response_id = response }

\* The file name ends in ".pdf", whatever the case of its letters.
EndsInPdf(f) ==
    /\ Len(f) >= 4
    /\ f[Len(f) - 3] = "."
    /\ f[Len(f) - 2] \in {"p", "P"}
    /\ f[Len(f) - 1] \in {"d", "D"}
    /\ f[Len(f)] \in {"f", "F"}

\* A PDF upload of at most 10 MiB.
ValidUpload(r) ==
    /\ EndsInPdf(requests[r].filename)
    /\ requests[r].size <= 10 * 1024 * 1024

\* C1 as stated: after every finished upload of a .pdf of at most 10 MiB a
\* JobDescription row for it exists, in one of the three statuses, whatever
\* happened in storage, extraction and generation.
C1_RowNeverAbsent ==
    \A r \in FinishedUploads :
        ValidUpload(r) =>
            \E j \in JobDescriptionsOf(r) : j.status \in Statuses

\* C1 amended: after a finished upload of a .pdf of at most 10 MiB, exactly one
\* JobDescription row for it exists (owned by the uploader, in one of the three
\* statuses) when storing the PDF, extracting its text and committing the new row
\* all succeeded; when one of them failed the request got 500 and no row exists.
C1_RowUnlessUploadStageFails ==
    \A r \in FinishedUploads :
        ValidUpload(r) =>
            IF requests[r].raised_in \in { "save_pdf", "create" }
            THEN /\ requests[r].status_code = 500
                 /\ JobDescriptionsOf(r) = {}
            ELSE /\ Cardinality(JobDescriptionsOf(r)) = 1
                 /\ \A j \in JobDescriptionsOf(r) :
                        /\ j.status \in Statuses
                        /\ j.user_id = requests[r].user
                        /\ j.file_path \in bucket

\* A finished valid upload whose row was left PENDING.
C1_Witness ==
    \E r \in FinishedUploads :
        /\ ValidUpload(r)
        /\ \E j \in JobDescriptionsOf(r) : j.status = PENDING

\* C2: a row is created in PENDING; afterwards its status changes only from
\* PENDING to QUESTIONS_GENERATED or from PENDING to ERROR with error_message set;
\* no row leaves QUESTIONS_GENERATED or ERROR and no row disappears.
C2_Step ==
    /\ \A j \in job_descriptions :
          \E k \in job_descriptions' :
              /\ k.id = j.id
              /\ \/ k = j
                 \/ /\ j.status = PENDING
                    /\ k = [ j EXCEPT !.status = k.status,
                                      !.error_message = k.error_message ]
                    /\ \/ k.status = QUESTIONS_GENERATED /\ k.error_message = None
                       \/ k.status = ERROR /\ k.error_message # None
    /\ \A k \in job_descriptions' :
          (\A j \in job_descriptions : j.id # k.id) => k.status = PENDING
    /\ \A k1, k2 \in job_descriptions' : k1.id = k2.id => k1 = k2

C2_StatusTransitions == [][C2_Step]_vars

\* One row has reached QUESTIONS_GENERATED and another ERROR.
C2_Witness ==
    \E j, k \in job_descriptions :
        /\ j.status = QUESTIONS_GENERATED
        /\ k.status = ERROR /\ k.error_message # None

\* C3 (state part): a JobDescription with status QUESTIONS_GENERATED has exactly 5
\* Questions, each owned by the owner of the JobDescription; an upload answered
\* with QUESTIONS_GENERATED has them under the uploader's user id.
C3_Committed ==
    /\ \A j \in job_descriptions :
          j.status = QUESTIONS_GENERATED =>
              /\ Cardinality(QuestionsOf(j.id)) = 5
              /\ \A q \in QuestionsOf(j.id) : q.user_id = j.user_id
    /\ \A r \in FinishedUploads :
          requests[r].body = QUESTIONS_GENERATED =>
              /\ Cardinality(QuestionsOf(r)) = 5
              /\ \A q \in QuestionsOf(r) : q.user_id = requests[r].user
              /\ \A j \in JobDescriptionsOf(r) : j.status = QUESTIONS_GENERATED

\* C3 (step part): the questions of a JobDescription appear in the very step that
\* sets its status to QUESTIONS_GENERATED, and in no other.
C3_SameCommit ==
    \A k \in job_descriptions' :
        LET before == { q \in questions : q.job_description_id = k.id }
            after == { q \in questions' : q.job_description_id = k.id }
            was == { j \in job_descriptions : j.id = k.id }
        IN  (after # before) <=>
                (k.status = QUESTIONS_GENERATED /\ \A j \in was : j.status = PENDING)

\* C3: successful question generation attaches exactly 5 Questions with the
\* uploader's user id, in the commit that sets QUESTIONS_GENERATED; every
\* committed state has exactly 5 Questions under a QUESTIONS_GENERATED row.
C3_FiveQuestions == [] C3_Committed /\ [][C3_SameCommit]_vars

\* An upload has been answered with QUESTIONS_GENERATED and 5 questions are stored.
C3_Witness ==
    \E r \in FinishedUploads :
        /\ requests[r].body = QUESTIONS_GENERATED
        /\ Cardinality(QuestionsOf(r)) = NumQuestions

\* The question-generation step of upload r failed: generate_questions raised
\* or the commit of the questions raised.
GenerationFailed(r) == requests[r].error # None

\* C4 as stated: when the question-generation step fails, the JobDescription ends
\* with status ERROR, error_message set and no Question rows.
C4_FailureEndsInError ==
    \A r \in FinishedUploads :
        GenerationFailed(r) =>
            /\ QuestionsOf(r) = {}
            /\ \E j \in JobDescriptionsOf(r) :
                  j.status = ERROR /\ j.error_message # None

\* C4 amended: when the question-generation step fails, no Question rows are
\* attached, and the JobDescription ends with status ERROR and error_message set
\* to the failure's message, unless the commit that records ERROR fails as well:
\* then the row stays PENDING without error_message and the request gets 500.
C4_FailureEndsInErrorIfRecorded ==
    \A r \in FinishedUploads :
        GenerationFailed(r) =>
            /\ QuestionsOf(r) = {}
            /\ Cardinality(JobDescriptionsOf(r)) = 1
            /\ \A j \in JobDescriptionsOf(r) :
                  IF requests[r].raised_in = "mark_error"
                  THEN /\ j.status = PENDING
                       /\ j.error_message = None
                       /\ requests[r].status_code = 500
                  ELSE /\ j.status = ERROR
                       /\ j.error_message = requests[r].error
                       /\ j.error_message # None

\* Persisting the questions failed and the row was marked ERROR.
C4_Witness ==
    \E r \in FinishedUploads :
        /\ requests[r].error = "commit failed"
        /\ requests[r].questions_list # << >>
        /\ QuestionsOf(r) = {}
        /\ \E j \in JobDescriptionsOf(r) : j.status = ERROR

\* C5 as stated: once the PENDING row exists, a failure of question generation
\* still answers 201 with that row in status ERROR; a failure before the row
\* exists fails the request.
C5_GenerationFailureNotSurfaced ==
    \A r \in FinishedUploads :
        /\ (requests[r].job_description # NoId /\ GenerationFailed(r)) =>
              /\ requests[r].status_code = 201
              /\ requests[r].body = ERROR
        /\ (ValidUpload(r) /\ requests[r].job_description = NoId) =>
              requests[r].status_code = 500

\* C5 amended: once the PENDING row exists, a failure of question generation
\* answers 201 with that row in status ERROR, unless the commit that records ERROR
\* fails: then the request gets 500 and the row stays PENDING.  A failure before
\* the row exists fails the request with 500.
C5_NotSurfacedIfRecorded ==
    \A r \in FinishedUploads :
        /\ (requests[r].job_description # NoId /\ GenerationFailed(r)) =>
              IF requests[r].raised_in = "mark_error"
              THEN /\ requests[r].status_code = 500
                   /\ \A j \in JobDescriptionsOf(r) : j.status = PENDING
              ELSE /\ requests[r].status_code = 201
                   /\ requests[r].body = ERROR
                   /\ \A j \in JobDescriptionsOf(r) : j.status = ERROR
        /\ (ValidUpload(r) /\ requests[r].job_description = NoId) =>
              /\ requests[r].status_code = 500
              /\ JobDescriptionsOf(r) = {}
        /\ requests[r].status_code = 201 => JobDescriptionsOf(r) # {}

\* The language-model call raised and the upload was still answered 201.
C5_Witness ==
    \E r \in FinishedUploads :
        /\ requests[r].error = "Claude API error"
        /\ requests[r].status_code = 201
        /\ requests[r].body = ERROR

\* C6 (state part): an upload whose file name does not end in .pdf, or whose
\* payload is larger than 10 MiB, is answered 400 and leaves no object in the
\* bucket, no JobDescription, no Question and no call to the language model; an
\* upload of a .pdf of at most 10 MiB (exactly 10 MiB included) is not answered 400.
C6_Rejected ==
    \A r \in InFlight :
        requests[r].kind = "upload" =>
            IF ~ EndsInPdf(requests[r].filename) \/ requests[r].size > 10 * 1024 * 1024
            THEN /\ requests[r].pc = "done"
                 /\ requests[r].status_code = 400
                 /\ PdfKey(r) \notin bucket
                 /\ JobDescriptionsOf(r) = {}
                 /\ QuestionsOf(r) = {}
                 /\ \A c \in calls : c[2] # r
            ELSE requests[r].status_code # 400

\* C6 (step part): the step that answers 400 changes neither the database, nor
\* the bucket, nor the calls made.
C6_NoSideEffect ==
    \A r \in DOMAIN requests' :
        (r \notin InFlight /\ requests'[r].kind = "upload"
                           /\ requests'[r].status_code = 400) =>
            /\ db' = db
            /\ bucket' = bucket
            /\ calls' = calls

\* C6: uploads that are not .pdf or exceed 10 MiB get 400 before any side effect;
\* exactly 10 MiB is accepted.
C6_RejectBeforeSideEffects == [] C6_Rejected /\ [][C6_NoSideEffect]_vars

\* A 12 MiB upload named jd.pdf has been answered 400 while an upload of exactly
\* 10 MiB went on to be stored.
C6_Witness ==
    /\ \E r \in FinishedUploads :
          /\ requests[r].filename = <<"j","d",".","p","d","f">>
          /\ requests[r].size = 12 * 1024 * 1024
          /\ requests[r].status_code = 400
    /\ \E r \in InFlight :
          /\ requests[r].kind = "upload"
          /\ requests[r].size = 10 * 1024 * 1024
          /\ PdfKey(r) \in bucket

\* C7 (state part): an upload whose save_pdf (storing or text extraction) failed
\* is answered 500 and has no JobDescription and no Question.
C7_NoRow ==
    \A r \in InFlight :
        (requests[r].kind = "upload" /\ requests[r].raised_in = "save_pdf") =>
            /\ requests[r].pc = "done"
            /\ requests[r].status_code = 500
            /\ JobDescriptionsOf(r) = {}
            /\ QuestionsOf(r) = {}

\* C7 (step part): no step of such a request, from its arrival to its 500,
\* changes the database.
C7_DatabaseUntouched ==
    \A r \in DOMAIN requests' :
        (/\ requests'[r].kind = "upload"
         /\ requests'[r].raised_in = "save_pdf"
         /\ (r \notin InFlight \/ requests[r] # requests'[r])) =>
            db' = db

\* C7: a failure of storing the PDF or extracting its text fails the request with
\* 500, creates no JobDescription and no Question and leaves the database as it was.
C7_StorageFailureLeavesNoRow == [] C7_NoRow /\ [][C7_DatabaseUntouched]_vars

\* Text extraction failed after the PDF was put in the bucket: 500 and no row.
C7_Witness ==
    \E r \in FinishedUploads :
        /\ requests[r].raised_in = "save_pdf"
        /\ PdfKey(r) \in bucket
        /\ requests[r].status_code = 500
        /\ JobDescriptionsOf(r) = {}

\* A submit_response request that passed the ownership and size checks.
Accepted(r) == requests[r].status_code \notin { 400, 404 }

\* The transcription call of request r returned a transcript.
Transcribed(r) == requests[r].transcript # None

Orphan(id, rows, scores, frames) ==
    /\ \E x \in rows : x.id = id
    /\ \A x \in scores : x.response_id # id
    /\ id \in DOMAIN frames => frames[id].pc = "done"

\* C9 (state part): the Response row is committed before evaluate_response is
\* called; a submission whose evaluation failed is answered 500 and its Response
\* row is there without a ResponseScore.
C9_CommittedBeforeEvaluation ==
    /\ \A c \in calls :
          c[1] = "evaluate_response" => ResponsesOf(c[2]) # {}
    /\ \A r \in FinishedSubmits :
          requests[r].raised_in = "evaluate" =>
              /\ requests[r].status_code = 500
              /\ ResponsesOf(r) # {}
              /\ ScoresOf(r) = {}

\* C9 (step part): no step removes or changes a Response row, and a Response
\* left without a score by an answered request stays without one.
C9_OrphanStays ==
    /\ responses \subseteq responses'
    /\ \A x \in responses :
          Orphan(x.id, responses, response_scores, requests) =>
              Orphan(x.id, responses', response_scores', requests')

SubScores(x) ==
    { x.score_confidence, x.score_clarity_structure, x.score_technical_depth,
      x.score_communication_skills, x.score_relevance }

\* The evaluation call of request r returned an evaluation.
Evaluated(r) == requests[r].evaluation # {}

ArrivingSubmits ==
    { r \in DOMAIN requests' \ DOMAIN requests : requests'[r].kind = "submit" }

\* User u owns a Question with this id.
OwnsQuestion(u, question_id, rows) ==
    \E q \in rows : q.id = question_id /\ q.user_id = u

\* Nothing of request r outside its frame: no audio blob, no transcription or
\* evaluation call, no Response and no ResponseScore row.
NoTraceOfSubmit(r) ==
    /\ AudioKey(r) \notin bucket
    /\ \A c \in calls : c[2] # r
    /\ ResponsesOf(r) = {}
    /\ \A x \in response_scores : x.id # r /\ x.response_id # r

C13_NotFoundOnArrival ==
    \A r \in ArrivingSubmits :
        ~OwnsQuestion(requests'[r].user, requests'[r].question_id, questions) =>
            /\ requests'[r].pc = "done"
            /\ requests'[r].status_code = 404
            /\ UNCHANGED <<db, bucket, calls>>

C13_NotFoundLeavesNoTrace ==
    \A r \in InFlight :
        (requests[r].kind = "submit" /\ requests[r].status_code = 404) =>
            /\ Finished(r)
            /\ NoTraceOfSubmit(r)

\* C13: a submission that names a question id for which the caller owns no
\* Question (none has the id, or the one that has it belongs to another user) is
\* answered 404 in the step in which it arrives, a step that changes neither
\* the database nor the bucket and makes no transcription or evaluation call;
\* and a submission answered 404 never has an audio blob, a call, a Response
\* row or a ResponseScore row of its own.
C13_NotFoundBeforeSideEffects ==
    /\ []C13_NotFoundLeavesNoTrace
    /\ [][C13_NotFoundOnArrival]_vars

\* A submission for a question that exists and belongs to another user has been
\* answered 404.
C13_Witness ==
    \E r \in FinishedSubmits :
        /\ requests[r].status_code = 404
        /\ \E q \in questions : /\ q.id = requests[r].question_id
                                 /\ q.user_id # requests[r].user
        /\ NoTraceOfSubmit(r)

\* The payload of submission r is larger than 50 MiB.
Oversize(frame) == frame.size > 50 * 1024 * 1024

\* C12 as stated: every submission whose audio is larger than 50 MiB is answered
\* 400 and leaves no Response row, no ResponseScore row and no audio blob.
C12_OversizeAlways400 ==
    \A r \in FinishedSubmits :
        Oversize(requests[r]) =>
            /\ requests[r].status_code = 400
            /\ NoTraceOfSubmit(r)

C12_OversizeOnArrival ==
    \A r \in ArrivingSubmits :
        Oversize(requests'[r]) =>
            /\ requests'[r].pc = "done"
            /\ requests'[r].status_code =
                  IF OwnsQuestion(requests'[r].user, requests'[r].question_id, questions)
                  THEN 400 ELSE 404
            /\ UNCHANGED <<db, bucket, calls>>

C12_OversizeLeavesNoTrace ==
    \A r \in InFlight :
        (requests[r].kind = "submit" /\ Oversize(requests[r])) =>
            /\ Finished(r)
            /\ requests[r].status_code \in { 400, 404 }
            /\ NoTraceOfSubmit(r)

\* C12 amended: a submission whose audio is larger than 50 MiB is answered in
\* the step in which it arrives, with 400 when the caller owns the question it
\* names and with 404 when the caller does not; in both cases it creates no
\* Response row, no ResponseScore row and no audio blob.
C12_OversizeRejected ==
    /\ []C12_OversizeLeavesNoTrace
    /\ [][C12_OversizeOnArrival]_vars

\* A submission of more than 50 MiB for a question of the caller has been
\* answered 400.
C12_Witness ==
    \E r \in FinishedSubmits :
        /\ Oversize(requests[r])
        /\ OwnsQuestion(requests[r].user, requests[r].question_id, questions)
        /\ requests[r].status_code = 400
        /\ NoTraceOfSubmit(r)

\* The calls to the adapters: object storage, transcription, language model.
AdapterCalls == { "save_pdf", "save_audio", "transcribe", "evaluate" }

\* The request was ended by an exception that an adapter raised.
AbortedByAdapter(r) == Finished(r) /\ requests[r].raised_in \in AdapterCalls

\* The detail of the answer carries the message of the exception.
ExposesException(frame) ==
    \E i \in 1..Len(frame.detail) : frame.detail[i] = frame.exception

\* C14 as stated: in both handlers an adapter exception that aborts the request
\* becomes a 500 whose detail carries the message of the exception.
C14_AdapterFailureExposed ==
    \A r \in InFlight :
        AbortedByAdapter(r) =>
            /\ requests[r].status_code = 500
            /\ ExposesException(requests[r])

\* C14 amended: in both handlers an adapter exception that aborts the request
\* becomes a 500.  In submit_response the detail is "Failed to process
\* response: " followed by the message of the exception; in
\* upload_job_description the detail is the fixed text "Failed to process job
\* description", which does not carry the message.
C14_AdapterFailureAnswered ==
    \A r \in InFlight :
        AbortedByAdapter(r) =>
            /\ requests[r].status_code = 500
            /\ requests[r].exception # None
            /\ IF requests[r].kind = "submit"
               THEN requests[r].detail =
                        <<"Failed to process response: ", requests[r].exception>>
               ELSE /\ requests[r].detail = <<"Failed to process job description">>
                    /\ ~ExposesException(requests[r])

\* A submission ended by the failure of the evaluation call, answered 500 with
\* the message of the exception in the detail.
C14_Witness ==
    \E r \in FinishedSubmits :
        /\ requests[r].raised_in = "evaluate"
        /\ requests[r].status_code = 500
        /\ ExposesException(requests[r])

\* The answered requests to a listing endpoint.
FinishedListings(kind) == { r \in InFlight : requests[r].kind = kind /\ Finished(r) }

\* User u owns a JobDescription with this id.
OwnsJobDescription(u, job_description_id) ==
    \E j \in job_descriptions : j.id = job_description_id /\ j.user_id = u

\* The owners of the Responses that an answer of list_responses names.
OwnersOfListed(items) ==
    { x.user_id : x \in { y \in responses :
                             \E i \in 1..Len(items) : items[i].response_id = y.id } }

C11_OwnJobDescriptionsOnly ==
    \A r \in FinishedListings("list_job_descriptions") :
        /\ requests[r].status_code = 200
        /\ requests[r].rows \subseteq job_descriptions
        /\ \A j \in requests[r].rows : j.user_id = requests[r].user

C11_OwnQuestionsOnly ==
    \A r \in FinishedListings("get_questions") :
        IF OwnsJobDescription(requests[r].user, requests[r].job_description_id)
        THEN /\ requests[r].status_code = 200
             /\ requests[r].rows \subseteq questions
             /\ \A q \in requests[r].rows : q.user_id = requests[r].user
        ELSE /\ requests[r].status_code = 404
             /\ requests[r].rows = {}

C11_OwnResponsesOnly ==
    \A r \in FinishedListings("list_responses") :
        IF OwnsQuestion(requests[r].user, requests[r].question_id, questions)
        THEN /\ requests[r].status_code = 200
             /\ OwnersOfListed(requests[r].items) \subseteq { requests[r].user }
        ELSE /\ requests[r].status_code = 404
             /\ requests[r].items = << >>

\* C11: whatever uploads and submissions came before, an answer of
\* list_job_descriptions, get_questions or list_responses to user U carries no
\* JobDescription, Question or Response whose user_id is not U, and
\* get_questions and list_responses answer 404, with nothing listed, when U
\* owns no JobDescription or Question with the id in the path.
C11_ListingsShowOwnRowsOnly ==
    /\ C11_OwnJobDescriptionsOnly
    /\ C11_OwnQuestionsOnly
    /\ C11_OwnResponsesOnly

\* A user who has job descriptions lists them while another user has job
\* descriptions too.
C11_Witness ==
    \E r \in FinishedListings("list_job_descriptions") :
        /\ requests[r].rows # {}
        /\ \E j \in job_descriptions : j.user_id # requests[r].user

\* The Responses of a question that have a ResponseScore.
ScoredResponsesOf(question_id) ==
    { x \in responses : x.question_id = question_id /\ ScoresOf(x.id) # {} }

\* The Responses that an answer of list_responses names.
Listed(items) == { items[i].response_id : i \in 1..Len(items) }

C15_ExactlyTheScored ==
    \A r \in FinishedListings("list_responses") :
        requests[r].status_code = 200 =>
            /\ Listed(requests[r].items) =
                  { x.id : x \in ScoredResponsesOf(requests[r].question_id) }
            /\ Len(requests[r].items) =
                  Cardinality(ScoredResponsesOf(requests[r].question_id))

C15_NewestFirst ==
    \A r \in FinishedListings("list_responses") :
        LET items == requests[r].items
        IN  /\ \A i \in 1..Len(items) :
                  \E x \in responses : /\ x.id = items[i].response_id
                                        /\ x.created_at = items[i].created_at
            /\ \A i, j \in 1..Len(items) :
                  i < j => items[i].created_at > items[j].created_at

C15_UnscoredNeverListed ==
    \A r \in FinishedListings("list_responses") :
        \A x \in responses :
            ScoresOf(x.id) = {} => x.id \notin Listed(requests[r].items)

C15_TwoListed ==
    \E r \in FinishedListings("list_responses") : Len(requests[r].items) = 2

=============================================================================
